---- MODULE Spec2Model ----
(***************************************************************************)
(* Model of experiments/run_experiments.py: the one-time setup (prompt,    *)
(* image uploads, combinations), the main experiment loop and the runner   *)
(* run_experiment, together with the two output directories it writes.     *)
(*                                                                         *)
(* Python strings on which the script computes (str.replace, "__".join,    *)
(* json.loads) are sequences of one-character strings; Str turns such a    *)
(* sequence into a TLA+ string once no more computation is done on it.     *)
(* An optional value (None or a value) is a sequence of length 0 or 1.     *)
(***************************************************************************)
EXTENDS Integers, Sequences, FiniteSets, TLC

(***************************************************************************)
(* Bounds of the model.                                                    *)
(***************************************************************************)
\* Executions of the script, one after the other, over the same directories.
MaxRuns == 2
\* Deviations of the environment from the nominal one (all assets present,
\* uploads succeed, the service answers NominalResponse, writes succeed)
\* over a whole behaviour.
MaxFaults == 1

(***************************************************************************)
(* Strings.                                                                *)
(***************************************************************************)
\* (In Str, str_replace and str_join the argument is bound once, as the one
\* element of a set, so that the recursion works on its value.)
RECURSIVE StrFrom(_, _)
StrFrom(chars, i) ==
    IF i > Len(chars) THEN "" ELSE chars[i] \o StrFrom(chars, i + 1)

Str(chars) == CHOOSE r \in {StrFrom(c, 1) : c \in {chars}} : TRUE

\* str.replace(old, new) for a non-empty old: left to right, non-overlapping.
RECURSIVE ReplaceFrom(_, _, _, _)
ReplaceFrom(s, i, old, new) ==
    IF i > Len(s) THEN <<>>
    ELSE IF i + Len(old) - 1 <= Len(s) /\ SubSeq(s, i, i + Len(old) - 1) = old
         THEN new \o ReplaceFrom(s, i + Len(old), old, new)
         ELSE <<s[i]>> \o ReplaceFrom(s, i + 1, old, new)

str_replace(s, old, new) ==
    CHOOSE r \in {ReplaceFrom(v, 1, old, new) : v \in {s}} : TRUE

Digits == <<"0", "1", "2", "3", "4", "5", "6", "7", "8", "9">>

\* f"{n}" for a natural number n.
RECURSIVE format_int(_)
format_int(n) ==
    IF n < 10 THEN <<Digits[n + 1]>>
    ELSE format_int(n \div 10) \o <<Digits[(n % 10) + 1]>>

\* sep.join(parts), on TLA+ strings.
RECURSIVE JoinFrom(_, _, _)
JoinFrom(sep, parts, i) ==
    IF i > Len(parts) THEN ""
    ELSE IF i = Len(parts) THEN parts[i]
    ELSE parts[i] \o sep \o JoinFrom(sep, parts, i + 1)

str_join(sep, parts) == CHOOSE r \in {JoinFrom(sep, p, 1) : p \in {parts}} : TRUE

(***************************************************************************)
(* Configuration (lines 48-65).  Python lists are indexed from 0: the      *)
(* element of index i is the (i+1)-th of the sequence.                     *)
(***************************************************************************)
IMAGE_FILES ==
    << <<"N", "L", "-", "U", "t", "H", "U", "A", "_", "A", "3", "7", "6", "0",
         "7", "6", "_", "0", "0", "0", "0", "3", "3", "_", "l", ".", "j", "p", "g">>,
       <<"N", "L", "-", "U", "t", "H", "U", "A", "_", "A", "3", "7", "6", "0",
         "7", "6", "_", "0", "0", "0", "0", "3", "3", "_", "r", ".", "j", "p", "g">>,
       <<"N", "L", "-", "U", "t", "H", "U", "A", "_", "A", "3", "7", "6", "0",
         "7", "9", "_", "0", "0", "0", "0", "0", "5", "_", "l", ".", "j", "p", "g">>,
       <<"N", "L", "-", "U", "t", "H", "U", "A", "_", "A", "3", "7", "6", "0",
         "7", "9", "_", "0", "0", "0", "0", "0", "5", "_", "r", ".", "j", "p", "g">> >>

MODELS ==
    << <<"m", "o", "d", "e", "l", "s", "/", "g", "e", "m", "i", "n", "i", "-",
         "2", ".", "5", "-", "f", "l", "a", "s", "h", "-", "l", "i", "t", "e">> >>

THINKING_BUDGETS == <<0, 2000>>

\* The r of itertools.combinations(range(len(IMAGE_FILES)), 3), line 174.
ExamplesPerCombination == 3

\* list[i] of a Python list.
At(list, i) == list[i + 1]

\* range(n) as a set.
Range(n) == 0 .. (n - 1)

(***************************************************************************)
(* Local assets (lines 79, 86, 170): the paths below DATA_DIR.             *)
(***************************************************************************)
PromptPath == "prompt.txt"

ImagePath(image_file) == "images/" \o Str(image_file)

\* Variant: the extension is not replaced.
GroundTruthPath_same_extension(image_name) == "ground_truth/" \o Str(image_name)

GroundTruthPath(image_name) ==
    "ground_truth/" \o
    Str(str_replace(image_name, <<".", "j", "p", "g">>, <<".", "j", "s", "o", "n">>))

\* The files of the data directory the script reads.
Assets ==
    { "prompt.txt",
      "images/NL-UtHUA_A376076_000033_l.jpg",
      "images/NL-UtHUA_A376076_000033_r.jpg",
      "images/NL-UtHUA_A376079_000005_l.jpg",
      "images/NL-UtHUA_A376079_000005_r.jpg",
      "ground_truth/NL-UtHUA_A376076_000033_l.json",
      "ground_truth/NL-UtHUA_A376076_000033_r.json",
      "ground_truth/NL-UtHUA_A376079_000005_l.json",
      "ground_truth/NL-UtHUA_A376079_000005_r.json" }

(***************************************************************************)
(* Output file names (lines 91-105).                                       *)
(***************************************************************************)
\* Variant: the path prefix is not stripped.
get_model_short_name_keeps_prefix(model_name) ==
    str_replace(model_name, <<":">>, <<"-">>)

get_model_short_name(model_name) ==
    str_replace(str_replace(model_name, <<"m", "o", "d", "e", "l", "s", "/">>, <<>>),
                <<":">>, <<"-">>)

\* Variant: the strategy is not part of the name.
filename_without_strategy(image_name, model_name, strategy, thinking_budget) ==
    LET image_base   == str_replace(image_name, <<".", "j", "p", "g">>, <<>>)
        model_short  == get_model_short_name(model_name)
        thinking_str == "thinking" \o Str(format_int(thinking_budget))
        parts        == <<Str(image_base), Str(model_short), thinking_str>>
    IN  str_join("__", parts) \o "" \o ".json"

build_output_filename(image_name, model_name, strategy, thinking_budget) ==
    LET image_base   == str_replace(image_name, <<".", "j", "p", "g">>, <<>>)
        model_short  == get_model_short_name(model_name)
        thinking_str == "thinking" \o Str(format_int(thinking_budget))
        parts        == <<Str(image_base), Str(model_short), strategy, thinking_str>>
    IN  str_join("__", parts) \o "" \o ".json"

(***************************************************************************)
(* itertools.combinations(range(n), r) (line 174), as the library computes *)
(* it: start from the indices 0..r-1; at each step take the rightmost      *)
(* index that is not at its maximum, add one to it and reset the indices   *)
(* right of it; stop when every index is at its maximum.                   *)
(***************************************************************************)
RECURSIVE CombinationsFrom(_, _, _)
CombinationsFrom(indices, n, r) ==
    LET movable == {i \in 1 .. r : indices[i] # (i - 1) + n - r}
    IN  IF movable = {} THEN <<indices>>
        ELSE LET i == CHOOSE m \in movable : \A k \in movable : k <= m
                 next == [j \in 1 .. r |->
                            IF j < i THEN indices[j] ELSE indices[i] + 1 + (j - i)]
             IN  <<indices>> \o CombinationsFrom(next, n, r)

\* Variant: the indices start from 1..r.
itertools_combinations_from_one(n, r) ==
    IF r > n THEN <<>> ELSE CombinationsFrom([j \in 1 .. r |-> j], n, r)

itertools_combinations(n, r) ==
    IF r > n THEN <<>> ELSE CombinationsFrom([j \in 1 .. r |-> j - 1], n, r)

\* set(range(len(IMAGE_FILES))) - set(example_indices), line 184.
TargetCandidates(example_indices) ==
    Range(Len(IMAGE_FILES)) \ {example_indices[j] : j \in 1 .. Len(example_indices)}

(***************************************************************************)
(* json.loads (line 139) on the texts the model's service returns: an      *)
(* integer literal, the empty object, or an object with one member whose   *)
(* value is an integer literal, without white space.  The result is <<>>   *)
(* for a JSONDecodeError and <<value>> otherwise.                          *)
(***************************************************************************)
IsDigit(c) == \E d \in 1 .. 10 : Digits[d] = c

DigitValue(c) == (CHOOSE d \in 1 .. 10 : Digits[d] = c) - 1

IsIntLiteral(s) ==
    /\ Len(s) >= 1
    /\ \A i \in 1 .. Len(s) : IsDigit(s[i])
    /\ Len(s) > 1 => s[1] # "0"

RECURSIVE IntOf(_)
IntOf(s) ==
    IF s = <<>> THEN 0
    ELSE 10 * IntOf(SubSeq(s, 1, Len(s) - 1)) + DigitValue(s[Len(s)])

JsonInt(n) == [kind |-> "int", key |-> "", num |-> n]
JsonEmptyObject == [kind |-> "object", key |-> "", num |-> 0]
JsonObject(k, n) == [kind |-> "object", key |-> k, num |-> n]

\* Variant: no text is rejected.
json_loads_unchecked(text) == <<JsonInt(Len(text))>>

json_loads(text) ==
    IF IsIntLiteral(text) THEN <<JsonInt(IntOf(text))>>
    ELSE IF text = <<"{", "}">> THEN <<JsonEmptyObject>>
    ELSE LET closing == {q \in 3 .. Len(text) : text[q] = "\""}
         IN  IF /\ Len(text) >= 7
                /\ text[1] = "{"
                /\ text[2] = "\""
                /\ text[Len(text)] = "}"
                /\ closing # {}
             THEN LET q == CHOOSE m \in closing : \A k \in closing : m <= k
                  IN  IF /\ q > 3
                         /\ q + 2 <= Len(text) - 1
                         /\ text[q + 1] = ":"
                         /\ \A i \in 3 .. (q - 1) : text[i] \notin {"\\", "{", "}"}
                         /\ IsIntLiteral(SubSeq(text, q + 2, Len(text) - 1))
                      THEN <<JsonObject(Str(SubSeq(text, 3, q - 1)),
                                        IntOf(SubSeq(text, q + 2, Len(text) - 1)))>>
                      ELSE <<>>
             ELSE <<>>

\* `if response.text:` (line 138): None and "" are false.
Truthy(text) == text # <<>> /\ text[1] # <<>>

(***************************************************************************)
(* The generation service (lines 119-127) is outside the script: what it   *)
(* returns is drawn from Responses.  text is None (<<>>) or a string       *)
(* (<<chars>>); usage_metadata is None (<<>>) or the four token counts.    *)
(***************************************************************************)
Usage(c, t, p, total) ==
    [candidates_token_count |-> c, thoughts_token_count |-> t,
     prompt_token_count |-> p, total_token_count |-> total]

Response(text, usage_metadata) == [text |-> text, usage_metadata |-> usage_metadata]

NominalResponse ==
    Response(<< <<"{", "\"", "a", "\"", ":", "1", "}">> >>, <<Usage(10, 5, 20, 35)>>)

Responses ==
    { NominalResponse,
      Response(<< <<"0">> >>, <<Usage(7, 0, 21, 28)>>),
      Response(<<>>, <<Usage(10, 5, 20, 35)>>),
      Response(<< <<>> >>, <<Usage(10, 5, 20, 35)>>),
      Response(<< <<"{", "n", "o", "t", " ", "j", "s", "o", "n">> >>,
               <<Usage(10, 5, 20, 35)>>),
      Response(<< <<"{", "\"", "a", "\"", ":", "1", "}">> >>, <<>>) }

(***************************************************************************)
(* Exceptions.  The script has one try statement (lines 110-159), with a   *)
(* handler for Exception.  A raised exception is caught when the line of   *)
(* some frame of the call stack lies in the body of the try statement;     *)
(* otherwise it ends the process.  A stack is the sequence of the lines    *)
(* being executed, innermost frame first.                                  *)
(***************************************************************************)
\* Variant: the try statement ends before the two file writes.
TryBodyLines_without_writes == 111 .. 147

TryBodyLines == 111 .. 156

\* Variant: the upload of line 171 is in a try statement of its own.
Caught_with_upload(stack) ==
    \E i \in 1 .. Len(stack) : stack[i] \in TryBodyLines \cup {171}

Caught(stack) == \E i \in 1 .. Len(stack) : stack[i] \in TryBodyLines

(***************************************************************************)
(* Conversation turns (lines 191-209 and 220-222).                         *)
(***************************************************************************)
\* Part(file_data=FileData(mime_type=..., file_uri=...)), line 74.
ImagePart(image_path) == [kind |-> "file_data", ref |-> "uri:" \o image_path]

\* Part(text=prompt_text), line 164.
PromptPart == [kind |-> "text", ref |-> "prompt"]

\* Part(text=json.dumps(load_ground_truth(example_image), indent=4)), lines 194-195.
GroundTruthPart(example_image) ==
    [kind |-> "text", ref |-> "json:" \o GroundTruthPath(example_image)]

Content(role, parts) == [role |-> role, parts |-> parts]

RECURSIVE FewshotExamples(_, _)
FewshotExamples(example_indices, parts) ==
    IF example_indices = <<>> THEN <<>>
    ELSE LET example_image == At(IMAGE_FILES, Head(example_indices))
         IN  << Content("user", <<parts[Str(example_image)], PromptPart>>),
                Content("model", <<GroundTruthPart(example_image)>>) >>
               \o FewshotExamples(Tail(example_indices), parts)

\* Variant: the final turn is not appended.
messages_fewshot_without_target(example_indices, target_image, parts) ==
    FewshotExamples(example_indices, parts)

messages_fewshot(example_indices, target_image, parts) ==
    Append(FewshotExamples(example_indices, parts),
           Content("user", <<parts[Str(target_image)], PromptPart>>))

messages_zeroshot(target_image, parts) ==
    << Content("user", <<parts[Str(target_image)], PromptPart>>) >>

(***************************************************************************)
(* The output directories (lines 36, 38) and the files in them.  A         *)
(* directory is a function from file names to contents; the content of a   *)
(* file is <<data>> after a completed json.dump of data and <<>> when the  *)
(* file was opened for writing (created or truncated) and the dump did not *)
(* complete.                                                               *)
(***************************************************************************)
PREDICTIONS_DIR == "predictions_test2"
METADATA_DIR == "metadata2"

EmptyDir == [name \in {} |-> <<>>]

DictSet(d, k, v) == [x \in DOMAIN d \cup {k} |-> IF x = k THEN v ELSE d[x]]

\* Variant: an existing file is kept (mode "x" with the error ignored).
open_x_dump(fs, dir, name, data) ==
    IF name \in DOMAIN fs[dir] THEN fs
    ELSE [fs EXCEPT ![dir] = DictSet(fs[dir], name, <<data>>)]

\* with open(dir / name, "w") as f: json.dump(data, f, indent=4), completed.
open_w_dump(fs, dir, name, data) ==
    [fs EXCEPT ![dir] = DictSet(fs[dir], name, <<data>>)]

\* open(dir / name, "w") succeeded and json.dump did not complete.
open_w_truncate(fs, dir, name) ==
    [fs EXCEPT ![dir] = DictSet(fs[dir], name, <<>>)]

(***************************************************************************)
(* The statements of run_experiment after json.loads, in the order of the  *)
(* source (lines 139-154).                                                 *)
(***************************************************************************)
\* Variant: the metadata file is written before the prediction file.
NextStmt_metadata_first(stmt) ==
    CASE stmt = "r_parse"      -> "r_write_meta"
      [] stmt = "r_write_meta" -> "r_write_pred"
      [] stmt = "r_write_pred" -> "r_saved"

NextStmt(stmt) ==
    CASE stmt = "r_parse"      -> "r_write_pred"
      [] stmt = "r_write_pred" -> "r_write_meta"
      [] stmt = "r_write_meta" -> "r_saved"

(***************************************************************************)
(* State.                                                                  *)
(***************************************************************************)
VARIABLES
    pc,              \* the statement the process is at
    run,             \* the number of the current execution of the script
    missing,         \* the local assets that do not exist
    faults,          \* deviations of the environment so far
    files,           \* the two output directories
    image_parts,     \* line 168: image file name -> uploaded part
    image_idx,       \* position of the loop of line 169
    combinations,    \* line 174
    model_idx,       \* position of the loop of line 177
    comb_idx,        \* position of the loop of line 182
    budget_idx,      \* position of the loop of line 189
    target_index,    \* line 184
    args,            \* the arguments of the current call of run_experiment
    response,        \* line 119: None or the response
    metadata,        \* line 130
    response_json,   \* line 139
    pred_filename,   \* line 141
    meta_filename,   \* line 144
    exc,             \* the exception being handled at line 158, if any
    abortCause,      \* the uncaught exception that ended the process, if any
    invoked,         \* history: the calls of run_experiment of this run
    generate_calls,  \* history: generate_content calls of the current call
    entry_fs,        \* history: files at the entry of the current call
    writes           \* history: <<directory, name>> of each file this run opened for writing

envVars == <<missing>>
setupVars == <<image_parts, image_idx, combinations>>
loopVars == <<model_idx, comb_idx, budget_idx, target_index>>
localVars == <<response, metadata, response_json, pred_filename, meta_filename>>
callVars == <<args, invoked, generate_calls, entry_fs>>
vars == <<pc, run, missing, faults, files, image_parts, image_idx, combinations,
          model_idx, comb_idx, budget_idx, target_index, args, response, metadata,
          response_json, pred_filename, meta_filename, exc, abortCause, invoked, generate_calls, entry_fs, writes>>

NoUsage == Usage(0, 0, 0, 0)
NoJson == JsonInt(0)
NoArgs ==
    [model_name |-> <<>>, messages |-> <<>>, image_name |-> <<>>, strategy |-> "",
     thinking_budget |-> 0, call_line |-> 0]

\* The state of a process that has just started: module level, line 162.
ProcessStart ==
    /\ pc = "load_prompt"
    /\ image_parts = EmptyDir
    /\ image_idx = 0
    /\ combinations = <<>>
    /\ model_idx = 0
    /\ comb_idx = 0
    /\ budget_idx = 0
    /\ target_index = 0
    /\ args = NoArgs
    /\ response = <<>>
    /\ metadata = NoUsage
    /\ response_json = NoJson
    /\ pred_filename = ""
    /\ meta_filename = ""
    /\ exc = <<>>
    /\ abortCause = <<>>
    /\ invoked = <<>>
    /\ generate_calls = 0
    /\ writes = <<>>

Init ==
    /\ ProcessStart
    /\ run = 1
    /\ missing \in {S \in SUBSET Assets : Cardinality(S) <= MaxFaults}
    /\ faults = Cardinality(missing)
    /\ files = [d \in {PREDICTIONS_DIR, METADATA_DIR} |-> EmptyDir]
    /\ entry_fs = files

\* One more deviation of the environment.
Fault == faults < MaxFaults /\ faults' = faults + 1

\* raise: to the handler of line 158 when caught, else the process ends.
Raise(type, stack, what) ==
    IF Caught(stack)
    THEN /\ pc' = "r_except"
         /\ exc' = <<[type |-> type, line |-> stack[1]]>>
         /\ UNCHANGED abortCause
    ELSE /\ pc' = "aborted"
         /\ abortCause' = <<[type |-> type, line |-> stack[1], what |-> what]>>
         /\ UNCHANGED exc

(***************************************************************************)
(* One-time setup (lines 162-174).                                         *)
(***************************************************************************)
\* Lines 163-164: load_prompt opens prompt.txt (line 86).
LoadPrompt ==
    /\ pc = "load_prompt"
    /\ IF PromptPath \in missing
       THEN Raise("FileNotFoundError", <<86, 163>>, PromptPath)
       ELSE /\ pc' = IF Len(IMAGE_FILES) > 0 THEN "upload" ELSE "combinations"
            /\ UNCHANGED <<exc, abortCause>>
    /\ UNCHANGED <<run, envVars, faults, files, setupVars, loopVars, localVars,
                   callVars, writes>>

\* Lines 169-171, one iteration whose upload (line 70) returns.
UploadReturns ==
    /\ pc = "upload"
    /\ LET image_file == At(IMAGE_FILES, image_idx)
       IN  /\ ImagePath(image_file) \notin missing
           /\ image_parts' = DictSet(image_parts, Str(image_file),
                                     ImagePart(ImagePath(image_file)))
    /\ image_idx' = image_idx + 1
    /\ pc' = IF image_idx + 1 < Len(IMAGE_FILES) THEN "upload" ELSE "combinations"
    /\ UNCHANGED <<run, envVars, faults, files, combinations, loopVars, localVars,
                   callVars, exc, abortCause, writes>>

\* Lines 169-171, one iteration whose upload (line 70) raises: the file does
\* not exist, or the service fails (auth, quota, network).
UploadRaises ==
    /\ pc = "upload"
    /\ LET path == ImagePath(At(IMAGE_FILES, image_idx))
       IN  IF path \in missing
           THEN /\ Raise("FileNotFoundError", <<70, 171>>, path)
                /\ UNCHANGED faults
           ELSE /\ Fault
                /\ Raise("APIError", <<70, 171>>, path)
    /\ UNCHANGED <<run, envVars, files, setupVars, loopVars, localVars, callVars,
                   writes>>

\* Line 174.
Combinations ==
    /\ pc = "combinations"
    /\ combinations' = itertools_combinations(Len(IMAGE_FILES), ExamplesPerCombination)
    /\ model_idx' = 0
    /\ pc' = "for_model"
    /\ UNCHANGED <<run, envVars, faults, files, image_parts, image_idx, comb_idx,
                   budget_idx, target_index, localVars, callVars, exc, abortCause,
                   writes>>

(***************************************************************************)
(* Main experiment loop (lines 177-230).                                   *)
(***************************************************************************)
\* Line 177: the next model, or the end of the script.
ForModel ==
    /\ pc = "for_model"
    /\ IF model_idx < Len(MODELS)
       THEN pc' = "for_combination" /\ comb_idx' = 0
       ELSE pc' = "done" /\ UNCHANGED comb_idx
    /\ UNCHANGED <<run, envVars, faults, files, setupVars, model_idx, budget_idx,
                   target_index, localVars, callVars, exc, abortCause, writes>>

\* Lines 182-185: the next combination and its target, or the next model.
\* list(set)[0] is some element of the set, and an IndexError when it is empty.
ForCombination ==
    /\ pc = "for_combination"
    /\ IF comb_idx < Len(combinations)
       THEN LET candidates == TargetCandidates(At(combinations, comb_idx))
            IN  IF candidates = {}
                THEN /\ Raise("IndexError", <<184>>, "")
                     /\ UNCHANGED <<target_index, budget_idx, model_idx>>
                ELSE /\ \E t \in candidates : target_index' = t
                     /\ budget_idx' = 0
                     /\ pc' = "for_budget"
                     /\ UNCHANGED <<model_idx, exc, abortCause>>
       ELSE /\ model_idx' = model_idx + 1
            /\ pc' = "for_model"
            /\ UNCHANGED <<target_index, budget_idx, exc, abortCause>>
    /\ UNCHANGED <<run, envVars, faults, files, setupVars, comb_idx, localVars,
                   callVars, writes>>

\* Line 189: the next thinking budget, or the next combination.
ForBudget ==
    /\ pc = "for_budget"
    /\ IF budget_idx < Len(THINKING_BUDGETS)
       THEN pc' = "fewshot" /\ UNCHANGED comb_idx
       ELSE pc' = "for_combination" /\ comb_idx' = comb_idx + 1
    /\ UNCHANGED <<run, envVars, faults, files, setupVars, model_idx, budget_idx,
                   target_index, localVars, callVars, exc, abortCause, writes>>

\* The call of run_experiment at call_line: the callee is at line 110.
Call(model_name, messages, image_name, strategy, thinking_budget, call_line) ==
    /\ args' = [model_name |-> model_name, messages |-> messages,
                image_name |-> image_name, strategy |-> strategy,
                thinking_budget |-> thinking_budget, call_line |-> call_line]
    /\ invoked' = Append(invoked,
                         [model_idx |-> model_idx, comb_idx |-> comb_idx,
                          budget_idx |-> budget_idx, model_name |-> Str(model_name),
                          image_name |-> Str(image_name), strategy |-> strategy,
                          thinking_budget |-> thinking_budget])
    /\ generate_calls' = 0
    /\ entry_fs' = files
    /\ pc' = "r_generate"

\* Lines 191-217: the few-shot turns (the ground truth of each example is
\* loaded at line 194, opened at line 80), then the call of line 211.
Fewshot ==
    /\ pc = "fewshot"
    /\ LET example_indices == At(combinations, comb_idx)
           target_image == At(IMAGE_FILES, target_index)
           absent == {j \in 1 .. Len(example_indices) :
                        GroundTruthPath(At(IMAGE_FILES, example_indices[j])) \in missing}
       IN  IF absent # {}
           THEN LET j == CHOOSE m \in absent : \A k \in absent : m <= k
                IN  /\ Raise("FileNotFoundError", <<80, 194>>,
                             GroundTruthPath(At(IMAGE_FILES, example_indices[j])))
                    /\ UNCHANGED callVars
           ELSE /\ Call(At(MODELS, model_idx),
                        messages_fewshot(example_indices, target_image, image_parts),
                        target_image, "fewshot", At(THINKING_BUDGETS, budget_idx), 211)
                /\ UNCHANGED <<exc, abortCause>>
    /\ UNCHANGED <<run, envVars, faults, files, setupVars, loopVars, localVars,
                   writes>>

\* Lines 220-230: the zero-shot turn and the call of line 224.
Zeroshot ==
    /\ pc = "zeroshot"
    /\ LET target_image == At(IMAGE_FILES, target_index)
       IN  Call(At(MODELS, model_idx), messages_zeroshot(target_image, image_parts),
                target_image, "zeroshot", At(THINKING_BUDGETS, budget_idx), 224)
    /\ UNCHANGED <<run, envVars, faults, files, setupVars, loopVars, localVars,
                   exc, abortCause, writes>>

(***************************************************************************)
(* run_experiment (lines 108-159).  The frames of the stack are the line   *)
(* of run_experiment being executed and the line of the call.              *)
(***************************************************************************)
Stack(line) == <<line, args.call_line>>

\* Lines 119-127: the one generate_content call returns a response.
GenerateReturns ==
    /\ pc = "r_generate"
    /\ generate_calls' = generate_calls + 1
    /\ \E r \in Responses :
          /\ response' = <<r>>
          /\ IF r = NominalResponse THEN UNCHANGED faults ELSE Fault
    /\ pc' = "r_metadata"
    /\ UNCHANGED <<run, envVars, files, setupVars, loopVars, metadata, response_json,
                   pred_filename, meta_filename, args, invoked, entry_fs, exc,
                   abortCause, writes>>

\* Lines 119-127: the one generate_content call raises (network, quota, ...).
GenerateRaises ==
    /\ pc = "r_generate"
    /\ generate_calls' = generate_calls + 1
    /\ Fault
    /\ Raise("APIError", Stack(119), "")
    /\ UNCHANGED <<run, envVars, files, setupVars, loopVars, localVars, args,
                   invoked, entry_fs, writes>>

\* Lines 130-135: the four token counts; usage_metadata may be None.
ExtractMetadata ==
    /\ pc = "r_metadata"
    /\ LET usage_metadata == response[1].usage_metadata
       IN  IF usage_metadata = <<>>
           THEN /\ Raise("AttributeError", Stack(131), "")
                /\ UNCHANGED metadata
           ELSE /\ metadata' =
                      [candidates_token_count |-> usage_metadata[1].candidates_token_count,
                       thoughts_token_count |-> usage_metadata[1].thoughts_token_count,
                       prompt_token_count |-> usage_metadata[1].prompt_token_count,
                       total_token_count |-> usage_metadata[1].total_token_count]
                /\ pc' = "r_text"
                /\ UNCHANGED <<exc, abortCause>>
    /\ UNCHANGED <<run, envVars, faults, files, setupVars, loopVars, response,
                   response_json, pred_filename, meta_filename, callVars, writes>>

\* Lines 138 and 155-156: the test of response.text.
CheckText ==
    /\ pc = "r_text"
    /\ pc' = IF Truthy(response[1].text) THEN "r_parse" ELSE "r_return"
    /\ UNCHANGED <<run, envVars, faults, files, setupVars, loopVars, localVars,
                   callVars, exc, abortCause, writes>>

\* Lines 139-146: json.loads, then the two file names.
Parse ==
    /\ pc = "r_parse"
    /\ LET parsed == json_loads(response[1].text[1])
       IN  IF parsed = <<>>
           THEN /\ Raise("JSONDecodeError", Stack(139), "")
                /\ UNCHANGED <<response_json, pred_filename, meta_filename>>
           ELSE /\ response_json' = parsed[1]
                /\ pred_filename' =
                      build_output_filename(args.image_name, args.model_name,
                                            args.strategy, args.thinking_budget)
                /\ meta_filename' =
                      build_output_filename(args.image_name, args.model_name,
                                            args.strategy, args.thinking_budget)
                /\ pc' = NextStmt("r_parse")
                /\ UNCHANGED <<exc, abortCause>>
    /\ UNCHANGED <<run, envVars, faults, files, setupVars, loopVars, response,
                   metadata, callVars, writes>>

\* A `with open(dir / name, "w") as f: json.dump(data, f, indent=4)` at
\* open_line and open_line + 1: it completes, or open raises and the file is
\* untouched, or the dump raises and leaves the file created or truncated.
Write(stmt, dir, name, data, open_line) ==
    /\ pc = stmt
    /\ \/ /\ files' = open_w_dump(files, dir, name, data)
          /\ writes' = Append(writes, <<dir, name>>)
          /\ pc' = NextStmt(stmt)
          /\ UNCHANGED <<faults, exc, abortCause>>
       \/ /\ Fault
          /\ Raise("OSError", Stack(open_line), name)
          /\ UNCHANGED <<files, writes>>
       \/ /\ Fault
          /\ files' = open_w_truncate(files, dir, name)
          /\ writes' = Append(writes, <<dir, name>>)
          /\ Raise("OSError", Stack(open_line + 1), name)
    /\ UNCHANGED <<run, envVars, setupVars, loopVars, localVars, callVars>>

\* Lines 148-149.
WritePrediction ==
    Write("r_write_pred", PREDICTIONS_DIR, pred_filename, response_json, 148)

\* Lines 151-152.
WriteMetadata ==
    Write("r_write_meta", METADATA_DIR, meta_filename, metadata, 151)

\* Line 154.
Saved ==
    /\ pc = "r_saved"
    /\ pc' = "r_return"
    /\ UNCHANGED <<run, envVars, faults, files, setupVars, loopVars, localVars,
                   callVars, exc, abortCause, writes>>

\* Lines 158-159: the handler logs the error.
Except ==
    /\ pc = "r_except"
    /\ pc' = "r_return"
    /\ UNCHANGED <<run, envVars, faults, files, setupVars, loopVars, localVars,
                   callVars, exc, abortCause, writes>>

\* run_experiment returns to its caller: after the call of line 211 the
\* zero-shot part follows, after the call of line 224 the next budget.
Return ==
    /\ pc = "r_return"
    /\ IF args.call_line = 211
       THEN pc' = "zeroshot" /\ UNCHANGED budget_idx
       ELSE pc' = "for_budget" /\ budget_idx' = budget_idx + 1
    /\ args' = NoArgs
    /\ response' = <<>>
    /\ metadata' = NoUsage
    /\ response_json' = NoJson
    /\ pred_filename' = ""
    /\ meta_filename' = ""
    /\ exc' = <<>>
    /\ UNCHANGED <<run, envVars, faults, files, setupVars, model_idx, comb_idx,
                   target_index, invoked, generate_calls, entry_fs, abortCause, writes>>

(***************************************************************************)
(* The script is executed again after the process ended; the output        *)
(* directories and the local assets are as the previous execution left     *)
(* them.  (A process killed at some point leaves the directories as they   *)
(* are in the state of that point.)                                        *)
(***************************************************************************)
Rerun ==
    /\ pc \in {"done", "aborted"}
    /\ run < MaxRuns
    /\ run' = run + 1
    /\ pc' = "load_prompt"
    /\ image_parts' = EmptyDir
    /\ image_idx' = 0
    /\ combinations' = <<>>
    /\ model_idx' = 0
    /\ comb_idx' = 0
    /\ budget_idx' = 0
    /\ target_index' = 0
    /\ args' = NoArgs
    /\ response' = <<>>
    /\ metadata' = NoUsage
    /\ response_json' = NoJson
    /\ pred_filename' = ""
    /\ meta_filename' = ""
    /\ exc' = <<>>
    /\ abortCause' = <<>>
    /\ invoked' = <<>>
    /\ generate_calls' = 0
    /\ writes' = <<>>
    /\ entry_fs' = files
    /\ UNCHANGED <<envVars, faults, files>>

Step ==
    \/ LoadPrompt
    \/ UploadReturns
    \/ UploadRaises
    \/ Combinations
    \/ ForModel
    \/ ForCombination
    \/ ForBudget
    \/ Fewshot
    \/ Zeroshot
    \/ GenerateReturns
    \/ GenerateRaises
    \/ ExtractMetadata
    \/ CheckText
    \/ Parse
    \/ WritePrediction
    \/ WriteMetadata
    \/ Saved
    \/ Except
    \/ Return

Next == Step \/ Rerun

Spec == Init /\ [][Next]_vars

\* The script is sequential: a process that has a next statement executes it.
FairSpec == Spec /\ WF_vars(Step)

(***************************************************************************)
(* Properties.                                                             *)
(***************************************************************************)
RunnerStmts ==
    {"r_generate", "r_metadata", "r_text", "r_parse", "r_write_pred",
     "r_write_meta", "r_saved", "r_except", "r_return"}

InRunner == pc \in RunnerStmts

\* The lines of run_experiment.
RunnerLines == 108 .. 159

Aborted == pc = "aborted" /\ abortCause # <<>>

\* The configured names, written out.
ImageNames ==
    << "NL-UtHUA_A376076_000033_l.jpg", "NL-UtHUA_A376076_000033_r.jpg",
       "NL-UtHUA_A376079_000005_l.jpg", "NL-UtHUA_A376079_000005_r.jpg" >>

ImageBases ==
    << "NL-UtHUA_A376076_000033_l", "NL-UtHUA_A376076_000033_r",
       "NL-UtHUA_A376079_000005_l", "NL-UtHUA_A376079_000005_r" >>

\* {image_base}__{model_short}__{strategy}__thinking{budget}.json of the
\* call in progress, from the names written out.
ExpectedFilename ==
    At(ImageBases, target_index) \o "__" \o "gemini-2.5-flash-lite" \o "__"
      \o args.strategy \o "__" \o "thinking"
      \o (IF budget_idx = 0 THEN "0" ELSE "2000") \o ".json"

NotJsonText == <<"{", "n", "o", "t", " ", "j", "s", "o", "n">>

\* The value the text of a response denotes, for the valid texts of Responses.
ExpectedJson(text) ==
    IF text = <<"{", "\"", "a", "\"", ":", "1", "}">> THEN [kind |-> "object", key |-> "a", num |-> 1]
    ELSE [kind |-> "int", key |-> "", num |-> 0]

\* The files of directory d other than name are as at the entry of the call.
OthersUnchanged(d, name) ==
    /\ DOMAIN files[d] \ {name} = DOMAIN entry_fs[d] \ {name}
    /\ \A n \in DOMAIN files[d] \ {name} : files[d][n] = entry_fs[d][n]

Dirs == {PREDICTIONS_DIR, METADATA_DIR}

\* C1: run_experiment never raises past its own boundary: whatever the one
\* generation call does (raises, returns empty text, invalid JSON, valid JSON,
\* no usage metadata) and whichever file write fails, no exception raised in
\* run_experiment ends the process, and when the call returns to the driver
\* exactly one generation call has been issued (never more than one).
C1_RunnerNeverRaises ==
    /\ Aborted => abortCause[1].line \notin RunnerLines
    /\ exc # <<>> => InRunner
    /\ InRunner => generate_calls <= 1
    /\ pc \in RunnerStmts \ {"r_generate"} => generate_calls = 1

\* C1: reached: the call returns to the driver after the metadata write failed.
C1_Witness ==
    /\ pc = "r_return"
    /\ exc # <<>>
    /\ exc[1].type = "OSError"
    /\ exc[1].line \in {151, 152}
    /\ generate_calls = 1

\* C2: when the service returns empty text (None or "") or text that is not
\* valid JSON, run_experiment writes no file: during and at the end of the
\* call both output directories are exactly as at its entry.
C2_NoFileOnEmptyOrInvalid ==
    (/\ InRunner
     /\ response # <<>>
     /\ response[1].text \in {<<>>, << <<>> >>, <<NotJsonText>>})
        => files = entry_fs

\* C2: reached: a call that got invalid JSON returns, in a run over
\* directories that already hold the files of its identity.
C2_Witness ==
    /\ pc = "r_return"
    /\ response # <<>>
    /\ response[1].text = <<NotJsonText>>
    /\ response[1].usage_metadata # <<>>
    /\ ExpectedFilename \in DOMAIN entry_fs[PREDICTIONS_DIR]

\* C2: reached: a call that got empty text returns.
C2_WitnessEmpty ==
    /\ pc = "r_return"
    /\ response # <<>>
    /\ response[1].text = << <<>> >>
    /\ response[1].usage_metadata # <<>>

\* C3: when the service returned non-empty valid JSON text and both writes
\* succeeded, exactly two files were written, one per output directory, both
\* named {image_base}__{model_short}__{strategy}__thinking{budget}.json from
\* the identity of the call; the prediction file holds the parsed value, the
\* metadata file the four token counts of the response; every other file is
\* as at the entry of the call.  The file name of the documented example is
\* as documented, and a ':' in the model name becomes '-'.
C3_TwoFilesWritten ==
    pc = "r_saved" =>
          /\ pred_filename = ExpectedFilename
          /\ meta_filename = ExpectedFilename
          /\ ExpectedFilename \in DOMAIN files[PREDICTIONS_DIR]
          /\ ExpectedFilename \in DOMAIN files[METADATA_DIR]
          /\ files[PREDICTIONS_DIR][ExpectedFilename]
                = <<ExpectedJson(response[1].text[1])>>
          /\ files[METADATA_DIR][ExpectedFilename] = response[1].usage_metadata
          /\ DOMAIN files[METADATA_DIR][ExpectedFilename][1]
                = {"candidates_token_count", "thoughts_token_count",
                   "prompt_token_count", "total_token_count"}
          /\ \A d \in Dirs : OthersUnchanged(d, ExpectedFilename)
          /\ Len(writes) >= 2
          /\ writes[Len(writes) - 1] = <<PREDICTIONS_DIR, ExpectedFilename>>
          /\ writes[Len(writes)] = <<METADATA_DIR, ExpectedFilename>>
          /\ build_output_filename(<<"A", ".", "j", "p", "g">>, At(MODELS, 0),
                                   "zeroshot", 0)
                = "A__gemini-2.5-flash-lite__zeroshot__thinking0.json"
          /\ build_output_filename(<<"A", ".", "j", "p", "g">>,
                                   <<"m", "o", "d", "e", "l", "s", "/", "a", ":", "b">>,
                                   "fewshot", 2000)
                = "A__a-b__fewshot__thinking2000.json"

\* C3: reached: both files of a zero-shot call with budget 2000 are saved.
C3_Witness ==
    /\ pc = "r_saved"
    /\ args.strategy = "zeroshot"
    /\ args.thinking_budget = 2000
    /\ response[1].text = << <<"0">> >>

\* C4, as claimed: an exception raised by the image upload call does not end
\* the process.
C4_UploadFailureDoesNotAbort ==
    ~(Aborted /\ abortCause[1].line = 70)

\* C4, amended: an exception raised by the generation call is caught and the
\* run continues, but an exception raised by the image upload call (line 70)
\* is never handled: it ends the process during setup, before any call of
\* run_experiment and before any file is written.
C4_UploadFailureAborts ==
    /\ exc # <<>> => exc[1].line # 70
    /\ Aborted => abortCause[1].line # 119
    /\ (Aborted /\ abortCause[1].line = 70) =>
          (invoked = <<>> /\ writes = <<>> /\ combinations = <<>>)

\* C4: reached: the upload of the third image fails in the service (the file
\* exists) and the process has ended.
C4_Witness ==
    /\ Aborted
    /\ abortCause[1].line = 70
    /\ abortCause[1].type = "APIError"
    /\ image_idx = 2

\* C5, as claimed: whenever the process ends on a file-not-found condition,
\* no call of run_experiment has happened and no output file has been written
\* by this run.
C5_AbortOnlyDuringSetup ==
    (Aborted /\ abortCause[1].type = "FileNotFoundError")
        => (invoked = <<>> /\ writes = <<>>)

\* C5, amended: a missing asset always ends the process (no execution with a
\* missing asset reaches the end of the script, and the handler of
\* run_experiment never sees the condition).  A missing prompt or image ends
\* it during setup, before any call of run_experiment.  A missing ground
\* truth ends it in the main loop, while the few-shot turns of a
\* (model, combination, budget) are built: before any call for that
\* configuration, and after both calls of every earlier configuration (none
\* for the first three images, four calls for the fourth image).
C5_AbortBeforeConfiguration ==
    /\ pc = "done" => missing = {}
    /\ exc # <<>> => exc[1].type # "FileNotFoundError"
    /\ (Aborted /\ abortCause[1].type = "FileNotFoundError") =>
          /\ abortCause[1].what \in missing
          /\ abortCause[1].line \in {86, 70, 80}
          /\ abortCause[1].line \in {86, 70} => (invoked = <<>> /\ writes = <<>>)
          /\ abortCause[1].line = 80 =>
                /\ \A k \in 1 .. Len(invoked) :
                      <<invoked[k].model_idx, invoked[k].comb_idx, invoked[k].budget_idx>>
                         # <<model_idx, comb_idx, budget_idx>>
                /\ Len(invoked) =
                      2 * (Len(THINKING_BUDGETS) * (Len(combinations) * model_idx + comb_idx)
                             + budget_idx)
                /\ Len(invoked) =
                      IF abortCause[1].what = "ground_truth/NL-UtHUA_A376079_000005_r.json"
                      THEN 4 ELSE 0

\* C5: reached: the ground truth of the fourth image is missing and the
\* process has ended after four calls of run_experiment.
C5_Witness ==
    /\ Aborted
    /\ abortCause[1].type = "FileNotFoundError"
    /\ abortCause[1].line = 80
    /\ Len(invoked) = 4

\* C6: when a call whose two output files already exist gets a valid response
\* and both writes succeed, both files are overwritten: the sets of file names
\* of both directories are as before the call, and both files hold the
\* content of this, later, call.
C6_RerunOverwrites ==
    (/\ pc = "r_saved"
     /\ ExpectedFilename \in DOMAIN entry_fs[PREDICTIONS_DIR]
     /\ ExpectedFilename \in DOMAIN entry_fs[METADATA_DIR])
        => /\ \A d \in Dirs : DOMAIN files[d] = DOMAIN entry_fs[d]
           /\ files[PREDICTIONS_DIR][ExpectedFilename]
                 = <<ExpectedJson(response[1].text[1])>>
           /\ files[METADATA_DIR][ExpectedFilename] = response[1].usage_metadata

\* C6: reached: a later run has replaced both files of an identity by other
\* contents.
C6_Witness ==
    /\ pc = "r_saved"
    /\ run > 1
    /\ ExpectedFilename \in DOMAIN entry_fs[PREDICTIONS_DIR]
    /\ ExpectedFilename \in DOMAIN entry_fs[METADATA_DIR]
    /\ entry_fs[PREDICTIONS_DIR][ExpectedFilename] # <<>>
    /\ entry_fs[METADATA_DIR][ExpectedFilename] # <<>>
    /\ files[PREDICTIONS_DIR][ExpectedFilename] # entry_fs[PREDICTIONS_DIR][ExpectedFilename]
    /\ files[METADATA_DIR][ExpectedFilename] # entry_fs[METADATA_DIR][ExpectedFilename]

SetOf(seq) == {seq[j] : j \in 1 .. Len(seq)}

\* C7: for the 4 configured images the combinations are exactly 4 distinct
\* 3-element subsets of {0,1,2,3}; for each, the target index of the driver
\* is the one index not in the subset; and at the end of the script each of
\* the 4 images has been the target of exactly one combination.
C7_CombinationsAndTargets ==
    /\ pc \in {"for_model", "for_combination", "for_budget", "fewshot", "zeroshot",
               "done"} \cup RunnerStmts =>
          /\ Len(combinations) = 4
          /\ \A i \in 1 .. 4 :
                /\ Len(combinations[i]) = 3
                /\ SetOf(combinations[i]) \subseteq {0, 1, 2, 3}
                /\ Cardinality(SetOf(combinations[i])) = 3
          /\ \A i, j \in 1 .. 4 :
                i # j => SetOf(combinations[i]) # SetOf(combinations[j])
    /\ pc \in {"for_budget", "fewshot", "zeroshot"} \cup RunnerStmts =>
          /\ target_index \notin SetOf(At(combinations, comb_idx))
          /\ {0, 1, 2, 3} \ SetOf(At(combinations, comb_idx)) = {target_index}
    /\ pc = "done" =>
          LET pairs == {<<invoked[k].comb_idx, invoked[k].image_name>> :
                           k \in 1 .. Len(invoked)}
          IN  /\ Cardinality(pairs) = 4
              /\ {pr[1] : pr \in pairs} = {0, 1, 2, 3}
              /\ {pr[2] : pr \in pairs} = SetOf(ImageNames)

\* C7: reached: the last combination, (1, 2, 3), has the first image as target.
C7_Witness ==
    /\ pc = "for_budget"
    /\ comb_idx = 3
    /\ At(combinations, comb_idx) = <<1, 2, 3>>
    /\ target_index = 0

ExpectedImagePart(i) == [kind |-> "file_data", ref |-> "uri:images/" \o At(ImageNames, i)]

ExpectedPromptPart == [kind |-> "text", ref |-> "prompt"]

ExpectedGroundTruthPart(i) ==
    [kind |-> "text", ref |-> "json:ground_truth/" \o At(ImageBases, i) \o ".json"]

\* C8: the few-shot sequence passed to run_experiment has exactly 7 turns:
\* for each of the 3 example indices, in the order of the combination, a
\* 'user' turn [example image, prompt] and a 'model' turn [ground truth of
\* that example], then a 'user' turn [target image, prompt]; the zero-shot
\* sequence has exactly 1 turn, 'user' [target image, prompt]; the target
\* image is in no example turn.
C8_MessageSequences ==
    InRunner =>
       LET m == args.messages
           examples == At(combinations, comb_idx)
           final == [role |-> "user",
                     parts |-> <<ExpectedImagePart(target_index), ExpectedPromptPart>>]
       IN  IF args.strategy = "fewshot"
           THEN /\ Len(m) = 7
                /\ \A j \in 1 .. 3 :
                      /\ m[2 * j - 1] =
                            [role |-> "user",
                             parts |-> <<ExpectedImagePart(examples[j]), ExpectedPromptPart>>]
                      /\ m[2 * j] =
                            [role |-> "model",
                             parts |-> <<ExpectedGroundTruthPart(examples[j])>>]
                /\ m[7] = final
                /\ \A k \in 1 .. 6 : \A q \in 1 .. Len(m[k].parts) :
                      m[k].parts[q] # ExpectedImagePart(target_index)
           ELSE /\ args.strategy = "zeroshot"
                /\ Len(m) = 1
                /\ m[1] = final

\* C8: reached: the few-shot call of the second combination, (0, 1, 3), with
\* budget 2000.
C8_Witness ==
    /\ pc = "r_generate"
    /\ args.strategy = "fewshot"
    /\ At(combinations, comb_idx) = <<0, 1, 3>>
    /\ args.thinking_budget = 2000
    /\ Len(args.messages) = 7

\* C8: reached: a zero-shot call.
C8_WitnessZeroshot ==
    /\ pc = "r_generate"
    /\ args.strategy = "zeroshot"
    /\ Len(args.messages) = 1

NoDuplicates(seq) == \A i, j \in 1 .. Len(seq) : i # j => seq[i] # seq[j]

\* Every point of models x combinations x budgets x strategies.
Points ==
    {<<mi, ci, bi, st>> : mi \in {0}, ci \in {0, 1, 2, 3}, bi \in {0, 1},
                          st \in {"fewshot", "zeroshot"}}

C9_EndsOnlyOnSetupFailure ==
    Aborted =>
       \/ abortCause[1].type = "FileNotFoundError" /\ abortCause[1].what \in missing
       \/ abortCause[1].type = "APIError" /\ abortCause[1].line = 70

C9_AtDone ==
    pc = "done" =>
       /\ Len(invoked) = 16
       /\ {<<invoked[k].model_idx, invoked[k].comb_idx, invoked[k].budget_idx,
             invoked[k].strategy>> : k \in 1 .. Len(invoked)} = Points
       /\ Cardinality({<<invoked[k].image_name, invoked[k].model_name,
                         invoked[k].strategy, invoked[k].thinking_budget>> :
                          k \in 1 .. Len(invoked)}) = 16

C9_NoOverwriteWithinRun ==
    /\ NoDuplicates(writes)
    /\ NoDuplicates(invoked)

\* C9: every execution of the script ends; it ends before the end of the
\* script only when a local asset is missing or an upload raised, so with all
\* assets and successful uploads it reaches the end of the script whatever
\* each generation call did; there run_experiment has been called exactly once
\* for each point of models x combinations x budgets x {fewshot, zeroshot}
\* (16 calls), with 16 different identities; and within a run no output file
\* is opened for writing twice.
C9_DriverTerminates ==
    /\ \A r \in 1 .. MaxRuns :
          (run = r /\ pc = "load_prompt") ~> (run = r /\ pc \in {"done", "aborted"})
    /\ []C9_EndsOnlyOnSetupFailure
    /\ []C9_AtDone
    /\ []C9_NoOverwriteWithinRun

\* C9: reached: the end of the script, in a run where a generation call
\* raised and one of the 16 identities has no file.
C9_Witness ==
    /\ pc = "done"
    /\ Len(invoked) = 16
    /\ faults = 1
    /\ missing = {}
    /\ Len(writes) = 30

\* C10: every metadata file has its prediction counterpart of the same name,
\* in every state (so also in the state a killed process or a failed write
\* leaves): the prediction file is written first.
C10_MetadataHasPrediction ==
    DOMAIN files[METADATA_DIR] \subseteq DOMAIN files[PREDICTIONS_DIR]

\* C10: reached: the script has ended and a prediction file has no metadata
\* counterpart (the metadata write failed).
C10_Witness ==
    /\ pc = "done"
    /\ \E n \in DOMAIN files[PREDICTIONS_DIR] : n \notin DOMAIN files[METADATA_DIR]

====
